---- MODULE Spec2Model ----
(***************************************************************************)
(* The chat widget of the UAV log viewer                                   *)
(* (src/src/components/FloatingButton.vue): the WebSocket session with its *)
(* reconnect loop, the chunked file upload, the inbound message router and *)
(* the data side channel.                                                  *)
(*                                                                         *)
(* One action is one browser task: an event handler together with the      *)
(* promise continuations (microtasks) it releases.  The handlers are       *)
(* operators from a state record to a state record, composed in the order  *)
(* in which the code runs them.                                            *)
(***************************************************************************)
EXTENDS Integers, Sequences, FiniteSets, TLC

VARIABLES
    messages, newMessage, hasFile, isConnected, ws, clientId,
    reconnectAttempts, currentFile, isSendingFile, isChatEnabled,
    isProcessingQuestion, isUploadingFile, isProcessingFile,
    sockets, nSockets, timers, runs, nRuns, sent, destroyed,
    nInbound, nChat, nFiles, closes, received, uncaught

vars == <<messages, newMessage, hasFile, isConnected, ws, clientId,
          reconnectAttempts, currentFile, isSendingFile, isChatEnabled,
          isProcessingQuestion, isUploadingFile, isProcessingFile,
          sockets, nSockets, timers, runs, nRuns, sent, destroyed,
          nInbound, nChat, nFiles, closes, received, uncaught>>

(***************************************************************************)
(* Bounds of the model.                                                    *)
(***************************************************************************)
\* sockets the session may create in the full system
MaxSockets == 2
\* sockets the session may create when only the connection is exercised
MaxReconnectSockets == 7
\* messagesDoneLoading events (each starts one onFileLoaded task)
MaxRuns == 2
\* inbound frames delivered to onmessage
MaxInbound == 2
\* sendMessage invocations
MaxChat == 1
\* file-ready events
MaxFileReady == 1
\* sockets the session may create when the reconnect timer is fair
MaxRetrySockets == 6
\* messagesDoneLoading events while frames arrive and the user chats
MaxTransferRuns == 1
\* inbound frames delivered to onmessage while a file may be uploading
MaxTransferInbound == 1

(***************************************************************************)
(* Program constants.                                                      *)
(***************************************************************************)
maxReconnectAttempts == 5
chunkSize == 1048576

\* this.ws = null
NoSocket == 0
\* this.clientId = null
NoClientId == "null"
\* the values Math.random() may give the client id
ClientIds == {"client_a", "client_b"}
\* this.currentFile = null
NoFile == [name |-> "null", size |-> 0]
\* the File objects a file-ready event may carry: 0 bytes, 1 MiB, 2.5 MiB
Files == { [name |-> "empty.bin", size |-> 0],
           [name |-> "one.bin", size |-> chunkSize],
           [name |-> "flight.bin", size |-> 2 * chunkSize + chunkSize \div 2] }

SocketIds == 1..MaxReconnectSockets
RunIds == 1..MaxRuns

\* a WebSocket the session has not created yet
NoSock == [readyState |-> "NONE", url |-> NoClientId, awaiter |-> 0, promise |-> "none"]
\* an onFileLoaded task that has not started
NoRun == [pc |-> "none", sock |-> 0, i |-> 0, totalChunks |-> 0, slice |-> 0, size0 |-> 0]

(***************************************************************************)
(* The state as one record, and its assignment to the primed variables.    *)
(***************************************************************************)
St ==
    [messages |-> messages, newMessage |-> newMessage, hasFile |-> hasFile,
     isConnected |-> isConnected, ws |-> ws, clientId |-> clientId,
     reconnectAttempts |-> reconnectAttempts, currentFile |-> currentFile,
     isSendingFile |-> isSendingFile, isChatEnabled |-> isChatEnabled,
     isProcessingQuestion |-> isProcessingQuestion,
     isUploadingFile |-> isUploadingFile, isProcessingFile |-> isProcessingFile,
     sockets |-> sockets, nSockets |-> nSockets, timers |-> timers,
     runs |-> runs, nRuns |-> nRuns, sent |-> sent, destroyed |-> destroyed,
     nInbound |-> nInbound, nChat |-> nChat, nFiles |-> nFiles, closes |-> closes,
     received |-> received, uncaught |-> uncaught]

Apply(n) ==
    /\ messages' = n.messages
    /\ newMessage' = n.newMessage
    /\ hasFile' = n.hasFile
    /\ isConnected' = n.isConnected
    /\ ws' = n.ws
    /\ clientId' = n.clientId
    /\ reconnectAttempts' = n.reconnectAttempts
    /\ currentFile' = n.currentFile
    /\ isSendingFile' = n.isSendingFile
    /\ isChatEnabled' = n.isChatEnabled
    /\ isProcessingQuestion' = n.isProcessingQuestion
    /\ isUploadingFile' = n.isUploadingFile
    /\ isProcessingFile' = n.isProcessingFile
    /\ sockets' = n.sockets
    /\ nSockets' = n.nSockets
    /\ timers' = n.timers
    /\ runs' = n.runs
    /\ nRuns' = n.nRuns
    /\ sent' = n.sent
    /\ destroyed' = n.destroyed
    /\ nInbound' = n.nInbound
    /\ nChat' = n.nChat
    /\ nFiles' = n.nFiles
    /\ closes' = n.closes
    /\ received' = n.received
    /\ uncaught' = n.uncaught

\* data (): the component's fields after construction
Init ==
    /\ messages = <<>>
    /\ newMessage = <<>>
    /\ hasFile = FALSE
    /\ isConnected = FALSE
    /\ ws = NoSocket
    /\ clientId = NoClientId
    /\ reconnectAttempts = 0
    /\ currentFile = NoFile
    /\ isSendingFile = FALSE
    /\ isChatEnabled = TRUE
    /\ isProcessingQuestion = FALSE
    /\ isUploadingFile = FALSE
    /\ isProcessingFile = FALSE
    /\ sockets = [s \in SocketIds |-> NoSock]
    /\ nSockets = 0
    /\ timers = 0
    /\ runs = [r \in RunIds |-> NoRun]
    /\ nRuns = 0
    /\ sent = <<>>
    /\ destroyed = FALSE
    /\ nInbound = 0
    /\ nChat = 0
    /\ nFiles = 0
    /\ closes = 0
    /\ received = <<>>
    /\ uncaught = 0

(***************************************************************************)
(* WebSocket: readyState and send().                                       *)
(***************************************************************************)
\* this.ws && this.ws.readyState === WebSocket.OPEN
IsOpen(st) == st.ws # NoSocket /\ st.sockets[st.ws].readyState = "OPEN"

\* history entries: this.messages.push({type, content, timestamp})
Entry(type, content) == [type |-> type, content |-> content]
\* a slip: unshift for push
PushFront(st, type, content) == [st EXCEPT !.messages = <<Entry(type, content)>> \o @]

Push(st, type, content) == [st EXCEPT !.messages = Append(@, Entry(type, content))]

\* what a send() call that returned handed to the socket
Frame(st, type, run, idx, total, name, size, ts, content) ==
    [type |-> type, run |-> run, chunkIndex |-> idx, totalChunks |-> total,
     fileName |-> name, size |-> size, timestamp |-> ts, content |-> content,
     sock |-> st.ws, readyState |-> st.sockets[st.ws].readyState]

\* this.ws.send(...) throws on a null handle (TypeError) and on a socket that
\* is still CONNECTING (InvalidStateError); on a CLOSING or CLOSED socket it
\* returns and the data is discarded
SendThrows(st) ==
    IF st.ws = NoSocket THEN "TypeError"
    ELSE IF st.sockets[st.ws].readyState = "CONNECTING" THEN "InvalidStateError"
    ELSE "no"

wsSend(st, type, run, idx, total, name, size, ts, content) ==
    [st EXCEPT !.sent = Append(@, Frame(st, type, run, idx, total, name, size, ts, content))]

(***************************************************************************)
(* ChunkedUploader: sendFileChunks and the tasks it suspends on.           *)
(***************************************************************************)
Min(a, b) == IF a <= b THEN a ELSE b
Max(a, b) == IF a >= b THEN a ELSE b

\* a slip: Math.floor for Math.ceil
CeilAsFloor(size, chunk) == size \div chunk

\* Math.ceil(size / chunkSize) on non-negative integers
Ceil(size, chunk) == IF size % chunk = 0 THEN size \div chunk ELSE size \div chunk + 1

\* a slip: the catch block forgets to clear the uploading flag
uploadCatchKeepsUploading(st, r, msg) ==
    LET s1 == Push(st, "error", <<"Error sending file: ", msg>>)
    IN [s1 EXCEPT !.isChatEnabled = TRUE,
                  !.isSendingFile = FALSE,
                  !.runs[r].pc = "failed"]

\* a slip: the catch block drops the connection
uploadCatchDisconnects(st, r, msg) ==
    LET s1 == Push(st, "error", <<"Error sending file: ", msg>>)
    IN [s1 EXCEPT !.isChatEnabled = TRUE,
                  !.isUploadingFile = FALSE,
                  !.isSendingFile = FALSE,
                  !.isConnected = FALSE,
                  !.runs[r].pc = "failed"]

\* catch (error) { ... } finally { ... } of sendFileChunks
uploadCatch(st, r, msg) ==
    LET s1 == Push(st, "error", <<"Error sending file: ", msg>>)
    IN [s1 EXCEPT !.isChatEnabled = TRUE,
                  !.isUploadingFile = FALSE,
                  !.isSendingFile = FALSE,
                  !.runs[r].pc = "failed"]

\* after the loop: the file_complete message, then finally
sendComplete(st, r) ==
    IF st.currentFile = NoFile THEN uploadCatch(st, r, "TypeError")
    ELSE IF SendThrows(st) # "no" THEN uploadCatch(st, r, SendThrows(st))
    ELSE LET s1 == wsSend(st, "file_complete", r, -1, st.runs[r].totalChunks,
                          st.currentFile.name, 0, FALSE, <<>>)
         IN [s1 EXCEPT !.currentFile = NoFile,
                       !.isSendingFile = FALSE,
                       !.runs[r].pc = "done"]

\* the loop test for index i and, inside the loop, the slice handed to the
\* FileReader; the task then waits for the reader
loopHead(st, r, i) ==
    IF i < st.runs[r].totalChunks
    THEN IF st.currentFile = NoFile THEN uploadCatch(st, r, "TypeError")
         ELSE LET start == i * chunkSize
                  end == Min(start + chunkSize, st.currentFile.size)
              IN [st EXCEPT !.runs[r].pc = "reading",
                            !.runs[r].i = i,
                            !.runs[r].slice = Max(0, end - start)]
    ELSE sendComplete([st EXCEPT !.runs[r].i = i], r)

\* sendFileChunks up to its first suspension
sendFileChunks(st, r) ==
    IF st.currentFile = NoFile THEN [st EXCEPT !.runs[r].pc = "skipped"]
    ELSE LET s1 == [st EXCEPT !.isSendingFile = TRUE,
                              !.isChatEnabled = FALSE,
                              !.isUploadingFile = TRUE,
                              !.runs[r].totalChunks = Ceil(st.currentFile.size, chunkSize),
                              !.runs[r].size0 = st.currentFile.size]
         IN loopHead(s1, r, 0)

\* reader.onload: build the file_chunk message and send it; the task then
\* waits for the inter-chunk delay
readerOnload(st, r) ==
    IF st.currentFile = NoFile THEN uploadCatch(st, r, "TypeError")
    ELSE IF SendThrows(st) # "no" THEN uploadCatch(st, r, SendThrows(st))
    ELSE LET s1 == wsSend(st, "file_chunk", r, st.runs[r].i, st.runs[r].totalChunks,
                          st.currentFile.name, st.runs[r].slice, FALSE, <<>>)
         IN [s1 EXCEPT !.runs[r].pc = "delay"]

\* reader.onerror = reject: the ProgressEvent has no message
readerOnerror(st, r) == uploadCatch(st, r, "undefined")

\* the 100 ms timer ends: i++ and the loop test
delayDone(st, r) == loopHead(st, r, st.runs[r].i + 1)

(***************************************************************************)
(* DataSync.                                                               *)
(***************************************************************************)
\* a slip: the handle is tested, its readyState is not
sendDataToBackendUnlessNull(st) ==
    IF st.ws = NoSocket \/ SendThrows(st) # "no" THEN st
    ELSE wsSend(st, "data", 0, -1, -1, "", 0, TRUE, <<"parsed_data">>)

sendDataToBackend(st) ==
    IF ~IsOpen(st) THEN st
    ELSE wsSend(st, "data", 0, -1, -1, "", 0, TRUE, <<"parsed_data">>)

\* the snapshot itself is built from the external telemetry store
updateParsedData(st) == sendDataToBackend(st)

(***************************************************************************)
(* ConnectionManager.                                                      *)
(***************************************************************************)
\* onFileLoaded after `await this.connectWebSocket()` resolved
afterConnect(st, r) ==
    IF st.isConnected /\ st.currentFile # NoFile
    THEN sendFileChunks(st, r)
    ELSE [st EXCEPT !.runs[r].pc = "skipped"]

\* onFileLoaded's catch: the awaited promise was rejected
connectCatch(st, r) ==
    LET s1 == Push(st, "system", <<"Failed to establish WebSocket connection">>)
    IN [s1 EXCEPT !.runs[r].pc = "rejected"]

\* a slip: no test for an open socket, every call opens a new one
connectWebSocketUnguarded(st, awaiter, rnd) ==
    LET id == st.nSockets + 1
        cid == IF st.clientId = NoClientId THEN rnd ELSE st.clientId
    IN [st EXCEPT !.clientId = cid,
                  !.nSockets = id,
                  !.ws = id,
                  !.sockets[id] = [readyState |-> "CONNECTING", url |-> cid,
                                   awaiter |-> awaiter, promise |-> "pending"]]

\* a slip: a new client id for every socket
connectWebSocketFreshId(st, awaiter, rnd) ==
    IF IsOpen(st) THEN st
    ELSE LET id == st.nSockets + 1
             cid == CHOOSE c \in ClientIds : c # st.clientId
         IN [st EXCEPT !.clientId = cid,
                       !.nSockets = id,
                       !.ws = id,
                       !.sockets[id] = [readyState |-> "CONNECTING", url |-> cid,
                                        awaiter |-> awaiter, promise |-> "pending"]]

\* connectWebSocket called by task `awaiter` (0: the reconnect timer, which
\* awaits nothing); rnd is the id Math.random() would give
connectWebSocket(st, awaiter, rnd) ==
    IF IsOpen(st) THEN st
    ELSE LET id == st.nSockets + 1
             cid == IF st.clientId = NoClientId THEN rnd ELSE st.clientId
         IN [st EXCEPT !.clientId = cid,
                       !.nSockets = id,
                       !.ws = id,
                       !.sockets[id] = [readyState |-> "CONNECTING", url |-> cid,
                                        awaiter |-> awaiter, promise |-> "pending"]]

\* this.ws.onopen of socket s, then the continuation resolve() releases
onopen(st, s) ==
    LET s1 == [st EXCEPT !.isConnected = TRUE, !.reconnectAttempts = 0]
    IN IF s1.sockets[s].promise # "pending" THEN s1
       ELSE LET s2 == [s1 EXCEPT !.sockets[s].promise = "resolved"]
            IN IF s2.sockets[s].awaiter = 0 THEN s2
               ELSE afterConnect(s2, s2.sockets[s].awaiter)

\* this.ws.onerror of socket s, then the continuation reject() releases
onerror(st, s) ==
    LET s1 == Push([st EXCEPT !.isConnected = FALSE],
                   "system", <<"Error connecting to chat server">>)
    IN IF s1.sockets[s].promise # "pending" THEN s1
       ELSE LET s2 == [s1 EXCEPT !.sockets[s].promise = "rejected"]
            IN IF s2.sockets[s].awaiter = 0 THEN s2
               ELSE connectCatch(s2, s2.sockets[s].awaiter)

\* a slip: <= for < in the test of the attempt ceiling
oncloseOffByOne(st) ==
    LET s1 == [st EXCEPT !.isConnected = FALSE]
    IN IF s1.reconnectAttempts <= maxReconnectAttempts
       THEN [s1 EXCEPT !.reconnectAttempts = @ + 1, !.timers = @ + 1]
       ELSE Push(s1, "system",
                 <<"Failed to reconnect to chat server after multiple attempts">>)

\* a slip: the reconnect is scheduled before the ceiling is tested
oncloseAlwaysRetries(st) ==
    LET s1 == [st EXCEPT !.isConnected = FALSE, !.timers = @ + 1]
    IN IF s1.reconnectAttempts < maxReconnectAttempts
       THEN [s1 EXCEPT !.reconnectAttempts = @ + 1]
       ELSE Push(s1, "system",
                 <<"Failed to reconnect to chat server after multiple attempts">>)

oncloseSchedulesTwice(st) ==
    LET s1 == [st EXCEPT !.isConnected = FALSE]
    IN IF s1.reconnectAttempts < maxReconnectAttempts
       THEN [s1 EXCEPT !.reconnectAttempts = @ + 1, !.timers = @ + 2]
       ELSE Push(s1, "system",
                 <<"Failed to reconnect to chat server after multiple attempts">>)

\* this.ws.onclose; a setTimeout is never cleared, so it is only counted
onclose(st) ==
    LET s1 == [st EXCEPT !.isConnected = FALSE]
    IN IF s1.reconnectAttempts < maxReconnectAttempts
       THEN [s1 EXCEPT !.reconnectAttempts = @ + 1, !.timers = @ + 1]
       ELSE Push(s1, "system",
                 <<"Failed to reconnect to chat server after multiple attempts">>)

\* onFileLoaded up to its first suspension; r is the new task
onFileLoaded(st, rnd) ==
    LET r == st.nRuns + 1
        s1 == [st EXCEPT !.hasFile = TRUE, !.nRuns = r]
        s2 == updateParsedData(s1)
    IN IF IsOpen(s2) THEN afterConnect(connectWebSocket(s2, r, rnd), r)
       ELSE LET s3 == connectWebSocket(s2, r, rnd)
            IN [s3 EXCEPT !.runs[r].pc = "awaitConnect", !.runs[r].sock = s3.ws]

disconnectWebSocket(st) ==
    IF st.ws = NoSocket THEN st
    ELSE LET s1 == IF st.sockets[st.ws].readyState = "OPEN"
                   THEN [st EXCEPT !.sockets[st.ws].readyState = "CLOSING"]
                   ELSE st
         IN [s1 EXCEPT !.ws = NoSocket, !.isConnected = FALSE]

\* beforeDestroy: $off of the four subscriptions, then disconnectWebSocket
beforeDestroy(st) == disconnectWebSocket([st EXCEPT !.destroyed = TRUE])

setCurrentFile(st, file) == [st EXCEPT !.currentFile = file]

(***************************************************************************)
(* Chat input.                                                             *)
(***************************************************************************)
\* what the user may have typed; a text is the sequence of its characters
Inputs == { <<>>, <<" ">>, <<"h", "i">> }

RECURSIVE TrimStart(_)
TrimStart(text) ==
    IF text # <<>> /\ Head(text) = " " THEN TrimStart(Tail(text)) ELSE text

RECURSIVE TrimEnd(_)
TrimEnd(text) ==
    IF text # <<>> /\ text[Len(text)] = " "
    THEN TrimEnd(SubSeq(text, 1, Len(text) - 1)) ELSE text

\* String.prototype.trim
Trim(text) == TrimEnd(TrimStart(text))

\* a slip: the reset of line 267 is left out
sendMessageKeepsProcessing(st) ==
    IF Trim(st.newMessage) = <<>> \/ ~st.isConnected \/ st.ws = NoSocket THEN st
    ELSE LET s1 == st
             s2 == Push(s1, "user", s1.newMessage)
         IN IF SendThrows(s2) # "no"
            THEN Push(s2, "system", <<"Failed to send message. Please try again.">>)
            ELSE [wsSend(s2, "chat", 0, -1, -1, "", 0, TRUE, s2.newMessage)
                     EXCEPT !.newMessage = <<>>]

sendMessage(st) ==
    IF Trim(st.newMessage) = <<>> \/ ~st.isConnected \/ st.ws = NoSocket THEN st
    ELSE LET s1 == [st EXCEPT !.isProcessingQuestion = FALSE]
             s2 == Push(s1, "user", s1.newMessage)
         IN IF SendThrows(s2) # "no"
            THEN Push(s2, "system", <<"Failed to send message. Please try again.">>)
            ELSE [wsSend(s2, "chat", 0, -1, -1, "", 0, TRUE, s2.newMessage)
                     EXCEPT !.newMessage = <<>>]

(***************************************************************************)
(* MessageRouter.  A text the service sends is a sequence of pieces, the   *)
(* first being the part the router matches on.                             *)
(***************************************************************************)
\* a content that is not a string (a JSON number)
NotAString == <<"#number">>

\* the frames the service may deliver
Frames ==
    { [json |-> "garbage", type |-> "", content |-> <<>>],
      [json |-> "null", type |-> "", content |-> <<>>],
      [json |-> "number", type |-> "", content |-> <<>>] }
    \cup
    [ json : {"object"},
      type : {"chat"},
      content : { <<"Processing your question...">>, <<"The flight lasted 12 minutes">> } ]
    \cup
    [ json : {"object"},
      type : {"system"},
      content : { <<"Connected to chat server">>,
                  <<"Welcome! Your client ID is:", " client_a">>,
                  <<"Processing File">>,
                  <<"Log file processed successfully:", " one.bin">>,
                  <<"File saved successfully:", " one.bin">>,
                  <<"Server restarting">>,
                  NotAString } ]
    \cup
    [ json : {"object"},
      type : {"acknowledgment", "error", "ping"},
      content : { <<"disk full">> } ]

\* String.prototype.startsWith, for a prefix that is one whole piece
startsWith(content, prefix) == Len(content) >= 1 /\ content[1] = prefix

\* the router throws a TypeError: .type of null, .startsWith of a non-string
routerThrows(m) ==
    \/ m.json = "null"
    \/ /\ m.type = "system"
       /\ m.content = NotAString

\* case 'chat'
routeChatEchoesMarker(st, m) ==
    IF m.content = <<"Processing your question...">>
    THEN Push([st EXCEPT !.isProcessingQuestion = TRUE], "server", m.content)
    ELSE Push([st EXCEPT !.isProcessingQuestion = FALSE], "server", m.content)

routeChat(st, m) ==
    IF m.content = <<"Processing your question...">>
    THEN [st EXCEPT !.isProcessingQuestion = TRUE]
    ELSE Push([st EXCEPT !.isProcessingQuestion = FALSE], "server", m.content)

\* case 'system'
routeSystemSavedKeepsUploading(st, m) ==
    IF \/ m.content = <<"Connected to chat server">>
       \/ startsWith(m.content, "Welcome! Your client ID is:")
    THEN st
    ELSE IF m.content = <<"Processing File">> THEN st
    ELSE IF startsWith(m.content, "Log file processed successfully:")
    THEN [st EXCEPT !.isProcessingFile = FALSE,
                    !.isUploadingFile = FALSE,
                    !.isProcessingQuestion = FALSE]
    ELSE IF startsWith(m.content, "File saved successfully:")
    THEN [st EXCEPT !.isProcessingFile = TRUE]
    ELSE Push(st, "system", m.content)

routeSystemShowsGreeting(st, m) ==
    IF m.content = <<"Connected to chat server">>
    THEN st
    ELSE IF m.content = <<"Processing File">> THEN st
    ELSE IF startsWith(m.content, "Log file processed successfully:")
    THEN [st EXCEPT !.isProcessingFile = FALSE,
                    !.isUploadingFile = FALSE,
                    !.isProcessingQuestion = FALSE]
    ELSE IF startsWith(m.content, "File saved successfully:")
    THEN [st EXCEPT !.isUploadingFile = FALSE, !.isProcessingFile = TRUE]
    ELSE Push(st, "system", m.content)

routeSystem(st, m) ==
    IF \/ m.content = <<"Connected to chat server">>
       \/ startsWith(m.content, "Welcome! Your client ID is:")
    THEN st
    ELSE IF m.content = <<"Processing File">> THEN st
    ELSE IF startsWith(m.content, "Log file processed successfully:")
    THEN [st EXCEPT !.isProcessingFile = FALSE,
                    !.isUploadingFile = FALSE,
                    !.isProcessingQuestion = FALSE]
    ELSE IF startsWith(m.content, "File saved successfully:")
    THEN [st EXCEPT !.isUploadingFile = FALSE, !.isProcessingFile = TRUE]
    ELSE Push(st, "system", m.content)

\* case 'acknowledgment' and default: logged to the console only
routeIgnoredShown(st, m) == Push(st, "system", m.content)

routeIgnored(st, m) == st

\* case 'error'
routeErrorKeepsUploading(st, m) ==
    Push([st EXCEPT !.isProcessingQuestion = FALSE,
                    !.isProcessingFile = FALSE],
         "system", <<"Error: ">> \o m.content)

routeError(st, m) ==
    Push([st EXCEPT !.isProcessingQuestion = FALSE,
                    !.isUploadingFile = FALSE,
                    !.isProcessingFile = FALSE],
         "system", <<"Error: ">> \o m.content)

\* an exception leaves a handler: the browser reports it and goes on
Throw(st) == [st EXCEPT !.uncaught = @ + 1]

\* the router throws before its first assignment
onMessageReceived(st, m) ==
    IF routerThrows(m) THEN Throw(st)
    ELSE IF m.type = "chat" THEN routeChat(st, m)
    ELSE IF m.type = "system" THEN routeSystem(st, m)
    ELSE IF m.type = "acknowledgment" THEN routeIgnored(st, m)
    ELSE IF m.type = "error" THEN routeError(st, m)
    ELSE routeIgnored(st, m)

\* JSON.parse throws a SyntaxError
parseThrows(m) == m.json = "garbage"

\* a slip: the handler has no try/catch
onmessageNoCatch(st, m) ==
    IF parseThrows(m) THEN Throw(st) ELSE onMessageReceived(st, m)

\* this.ws.onmessage: JSON.parse and the router inside try/catch; the catch
\* block only logs
onmessage(st, m) ==
    IF parseThrows(m) THEN st
    ELSE IF routerThrows(m) THEN st
    ELSE onMessageReceived(st, m)

(***************************************************************************)
(* Actions: one per browser task.                                          *)
(***************************************************************************)
\* the 'file-ready' event
FileReady(file) ==
    /\ ~destroyed
    /\ nFiles < MaxFileReady
    /\ Apply(setCurrentFile([St EXCEPT !.nFiles = @ + 1], file))

\* the 'messagesDoneLoading' event; cap bounds the sockets ever created and
\* ids are the client ids Math.random() may give
MessagesDoneLoading(cap, ids) ==
    /\ ~destroyed
    /\ nRuns < MaxRuns
    /\ IsOpen(St) \/ nSockets < cap
    /\ \E rnd \in ids :
          /\ clientId = NoClientId \/ rnd = clientId
          /\ Apply(onFileLoaded(St, rnd))

\* the connection of socket s is established
SocketOpen(s) ==
    /\ sockets[s].readyState = "CONNECTING"
    /\ Apply(onopen([St EXCEPT !.sockets[s].readyState = "OPEN", !.closes = 0], s))

\* the connection of socket s fails: error event, then close event
SocketFail(s) ==
    /\ sockets[s].readyState \in {"CONNECTING", "OPEN", "CLOSING"}
    /\ Apply(onclose(onerror([St EXCEPT !.sockets[s].readyState = "CLOSED",
                                        !.closes = @ + 1], s)))

\* the connection of socket s is closed cleanly: close event only
SocketClose(s) ==
    /\ sockets[s].readyState \in {"OPEN", "CLOSING"}
    /\ Apply(onclose([St EXCEPT !.sockets[s].readyState = "CLOSED",
                                !.closes = @ + 1]))

\* a reconnect timer set by onclose fires
TimerFire(cap) ==
    /\ timers > 0
    /\ IsOpen(St) \/ nSockets < cap
    /\ Apply(connectWebSocket([St EXCEPT !.timers = @ - 1], 0, clientId))

\* the component is destroyed
BeforeDestroy ==
    /\ ~destroyed
    /\ Apply(beforeDestroy(St))

\* the FileReader of task r has read its slice
ChunkLoaded(r) ==
    /\ runs[r].pc = "reading"
    /\ Apply(readerOnload(St, r))

\* the FileReader of task r fails
ChunkReadError(r) ==
    /\ runs[r].pc = "reading"
    /\ Apply(readerOnerror(St, r))

\* the inter-chunk delay of task r ends
DelayDone(r) ==
    /\ runs[r].pc = "delay"
    /\ Apply(delayDone(St, r))

\* a frame arrives on socket s
SocketMessage(s, m) ==
    /\ sockets[s].readyState \in {"OPEN", "CLOSING"}
    /\ nInbound < MaxInbound
    /\ Apply(onmessage([St EXCEPT !.nInbound = @ + 1,
                                  !.received = Append(@, m)], m))

\* v-model: the user edits the input
TypeMessage(text) ==
    /\ text # newMessage
    /\ Apply([St EXCEPT !.newMessage = text])

\* Enter or the Send button
SendMessage ==
    /\ nChat < MaxChat
    /\ Apply(sendMessage([St EXCEPT !.nChat = @ + 1]))

\* the upload: the session, the file events and the upload tasks
NextUpload ==
    \/ \E file \in Files : FileReady(file)
    \/ MessagesDoneLoading(MaxSockets, {"client_a"})
    \/ \E s \in SocketIds : SocketOpen(s)
    \/ \E s \in SocketIds : SocketFail(s)
    \/ \E s \in SocketIds : SocketClose(s)
    \/ TimerFire(MaxSockets)
    \/ BeforeDestroy
    \/ \E r \in RunIds : ChunkLoaded(r)
    \/ \E r \in RunIds : ChunkReadError(r)
    \/ \E r \in RunIds : DelayDone(r)

SpecUpload == Init /\ [][NextUpload]_vars

\* the session alone: no file is ever made ready and nobody uses the chat
NextSession ==
    \/ MessagesDoneLoading(MaxReconnectSockets, ClientIds)
    \/ \E s \in SocketIds : SocketOpen(s)
    \/ \E s \in SocketIds : SocketFail(s)
    \/ \E s \in SocketIds : SocketClose(s)
    \/ TimerFire(MaxReconnectSockets)
    \/ BeforeDestroy

SpecSession == Init /\ [][NextSession]_vars

\* the chat: the session, the inbound frames and the user's messages
NextChat ==
    \/ MessagesDoneLoading(MaxSockets, {"client_a"})
    \/ \E s \in SocketIds : SocketOpen(s)
    \/ \E s \in SocketIds : SocketFail(s)
    \/ \E s \in SocketIds : SocketClose(s)
    \/ TimerFire(MaxSockets)
    \/ BeforeDestroy
    \/ \E s \in SocketIds, m \in Frames : SocketMessage(s, m)
    \/ \E text \in Inputs : TypeMessage(text)
    \/ SendMessage

SpecChat == Init /\ [][NextChat]_vars

\* the whole widget: one load event with its upload, while frames arrive and
\* the user chats
NextTransfer ==
    \/ \E file \in Files : FileReady(file)
    \/ nRuns < MaxTransferRuns /\ MessagesDoneLoading(MaxSockets, {"client_a"})
    \/ \E s \in SocketIds : SocketOpen(s)
    \/ \E s \in SocketIds : SocketFail(s)
    \/ \E s \in SocketIds : SocketClose(s)
    \/ TimerFire(MaxSockets)
    \/ BeforeDestroy
    \/ \E r \in RunIds : ChunkLoaded(r)
    \/ \E r \in RunIds : ChunkReadError(r)
    \/ \E r \in RunIds : DelayDone(r)
    \/ \E s \in SocketIds, m \in Frames :
          nInbound < MaxTransferInbound /\ SocketMessage(s, m)
    \/ \E text \in Inputs : TypeMessage(text)
    \/ SendMessage

SpecTransfer == Init /\ [][NextTransfer]_vars

(***************************************************************************)
(* Vocabulary of the properties.                                           *)
(***************************************************************************)
\* the frames task r handed to the socket, in order
RunFrames(r) == SelectSeq(sent, LAMBDA f : f.run = r)

\* ceil(size / chunkSize) by its definition: the least n with n * chunkSize >= size
LeastCover(size) ==
    CHOOSE n \in 0..(size \div chunkSize + 1) :
        /\ n * chunkSize >= size
        /\ \A k \in 0..(n - 1) : k * chunkSize < size

\* the size of the file of that name
SizeOf(name) == (CHOOSE f \in Files : f.name = name).size

TerminalEntry ==
    Entry("system", <<"Failed to reconnect to chat server after multiple attempts">>)
TerminalEntries == Cardinality({k \in DOMAIN messages : messages[k] = TerminalEntry})

\* steps of the browser, told by what they do to a socket
OpenStep ==
    \E s \in SocketIds :
        sockets[s].readyState = "CONNECTING" /\ sockets'[s].readyState = "OPEN"
CloseStep ==
    \E s \in SocketIds :
        sockets[s].readyState # "CLOSED" /\ sockets'[s].readyState = "CLOSED"
\* a reconnect timer fires
TimerStep == timers' = timers - 1
\* task r ends in sendFileChunks' catch
FailStep(r) == runs[r].pc # "failed" /\ runs'[r].pc = "failed"

IsUploadFrame(f) == f.type \in {"file_chunk", "file_complete"}

(***************************************************************************)
(* C1.  A run of sendFileChunks that meets no failure hands the socket     *)
(* exactly ceil(S / 1 MiB) file_chunk messages with chunkIndex 0, 1, ...,  *)
(* totalChunks - 1 in that order, each carrying that totalChunks and (for  *)
(* the file it started with) the bytes [i * 1 MiB, min((i+1) * 1 MiB, S)), *)
(* and then exactly one file_complete carrying totalChunks; a file of 0    *)
(* bytes gives no file_chunk and one file_complete.                        *)
(***************************************************************************)
C1_CompleteUploadSequence ==
    \A r \in RunIds :
        runs[r].pc = "done" =>
            LET fs == RunFrames(r)
                n == LeastCover(runs[r].size0)
            IN /\ Len(fs) = n + 1
               /\ \A k \in 1..n :
                     /\ fs[k].type = "file_chunk"
                     /\ fs[k].chunkIndex = k - 1
                     /\ fs[k].totalChunks = n
                     /\ SizeOf(fs[k].fileName) = runs[r].size0 =>
                            fs[k].size = Min(chunkSize, runs[r].size0 - (k - 1) * chunkSize)
               /\ fs[n + 1].type = "file_complete"
               /\ fs[n + 1].totalChunks = n

\* the 2.5 MiB file went out whole: three chunks and the completion
C1_Witness ==
    \E r \in RunIds :
        /\ runs[r].pc = "done"
        /\ runs[r].size0 = 2 * chunkSize + chunkSize \div 2
        /\ Len(RunFrames(r)) = 4

(***************************************************************************)
(* C2.  Whatever the interleaving of events, the frames sent for one file  *)
(* never hold the same chunkIndex twice, their chunk indices increase      *)
(* strictly, and file_complete for the file is sent at most once and only  *)
(* after all its chunks.                                                   *)
(***************************************************************************)
C2_NoChunkSentTwice ==
    /\ \A j, k \in DOMAIN sent :
          /\ j < k
          /\ sent[j].type = "file_chunk"
          /\ sent[k].type = "file_chunk"
          /\ sent[j].fileName = sent[k].fileName
          => sent[j].chunkIndex < sent[k].chunkIndex
    /\ \A j, k \in DOMAIN sent :
          /\ j < k
          /\ sent[j].type = "file_complete"
          /\ sent[j].fileName = sent[k].fileName
          => ~IsUploadFrame(sent[k])
    /\ \A k \in DOMAIN sent :
          sent[k].type = "file_complete" =>
              \A i \in 0..(sent[k].totalChunks - 1) :
                  \E j \in 1..(k - 1) :
                      /\ sent[j].type = "file_chunk"
                      /\ sent[j].fileName = sent[k].fileName
                      /\ sent[j].chunkIndex = i

(***************************************************************************)
(* C3.  reconnectAttempts stays within 0..maxReconnectAttempts; only an    *)
(* onopen step lowers it, and every onopen step leaves it 0.               *)
(***************************************************************************)
C3_ReconnectAttemptsBounded ==
    /\ [](reconnectAttempts \in 0..maxReconnectAttempts)
    /\ [][reconnectAttempts' < reconnectAttempts => OpenStep]_vars
    /\ [][OpenStep => reconnectAttempts' = 0]_vars

\* the ceiling was reached by closes of overlapping sockets: two reconnect
\* timers are pending at once
C3_Witness == reconnectAttempts = maxReconnectAttempts /\ timers >= 2

(***************************************************************************)
(* C4.  connectWebSocket called while the current socket is open creates   *)
(* no socket and changes no state: whoever calls it, and in particular     *)
(* when a reconnect timer does.                                            *)
(***************************************************************************)
C4_ConnectWhileOpenIsNoOp ==
    /\ [](IsOpen(St) =>
            \A awaiter \in 0..MaxRuns, rnd \in ClientIds :
                connectWebSocket(St, awaiter, rnd) = St)
    /\ [][TimerStep /\ IsOpen(St) =>
            UNCHANGED <<ws, clientId, isConnected, reconnectAttempts, messages,
                        sockets, nSockets, runs, sent>>]_vars

\* socket 1 closed and scheduled the only timer; the timer has fired and
\* made no socket, since socket 2 was made for a task: it fired while
\* socket 2 was open
C4_Witness ==
    /\ IsOpen(St)
    /\ ws = 2
    /\ nSockets = 2
    /\ sockets[1].readyState = "CLOSED"
    /\ sockets[2].awaiter # 0
    /\ timers = 0

(***************************************************************************)
(* C5, as stated.  Five consecutive closes with no open in between leave   *)
(* the session failed for good: one terminal entry in the history and no   *)
(* reconnect scheduled.                                                    *)
(***************************************************************************)
C5_FailedAfterFiveCloses ==
    (~destroyed /\ nRuns = 1 /\ closes = 5) => (TerminalEntries = 1 /\ timers = 0)

(***************************************************************************)
(* C5, amended.  reconnectAttempts counts the closes since the last open,  *)
(* up to 5.  A close met with reconnectAttempts < 5 appends no terminal    *)
(* entry and schedules exactly one reconnect, so the fifth consecutive     *)
(* close still schedules the fifth reconnect.  A close met with            *)
(* reconnectAttempts = 5, the sixth consecutive close at the earliest,     *)
(* appends exactly one terminal entry, schedules nothing and leaves        *)
(* reconnectAttempts at 5.                                                 *)
(***************************************************************************)
C5_FailedAtSixthClose ==
    /\ [](reconnectAttempts = Min(closes, maxReconnectAttempts))
    /\ [][CloseStep /\ reconnectAttempts < maxReconnectAttempts =>
            /\ TerminalEntries' = TerminalEntries
            /\ timers' = timers + 1
            /\ reconnectAttempts' = reconnectAttempts + 1]_vars
    /\ [][CloseStep /\ reconnectAttempts = maxReconnectAttempts =>
            /\ TerminalEntries' = TerminalEntries + 1
            /\ timers' = timers
            /\ nSockets' = nSockets
            /\ reconnectAttempts' = maxReconnectAttempts]_vars

\* the sixth consecutive close has come: one terminal entry, nothing pending
C5_Witness == closes = 6 /\ TerminalEntries = 1 /\ timers = 0

(***************************************************************************)
(* C6.  Once disconnectWebSocket has been called (by beforeDestroy, after  *)
(* which no file-loaded event reaches the component) no socket is created  *)
(* and reconnectAttempts is not incremented.                               *)
(***************************************************************************)
C6_DisconnectStopsReconnect ==
    [][destroyed => /\ nSockets' = nSockets
                    /\ reconnectAttempts' <= reconnectAttempts]_vars

(***************************************************************************)
(* C7.  After disconnectWebSocket the session is and stays Disconnected:   *)
(* ws is null and isConnected is false.                                    *)
(***************************************************************************)
C7_DisconnectedAfterDisconnect ==
    destroyed => (ws = NoSocket /\ ~isConnected)

(***************************************************************************)
(* C8.  isConnected is true exactly when the current socket handle is      *)
(* non-null and open.                                                      *)
(***************************************************************************)
C8_IsConnectedIffOpen == isConnected <=> IsOpen(St)

(***************************************************************************)
(* C9.  No file_chunk or file_complete is handed to a socket that is not   *)
(* open.                                                                   *)
(***************************************************************************)
C9_UploadOnlyToOpenSocket ==
    \A k \in DOMAIN sent : IsUploadFrame(sent[k]) => sent[k].readyState = "OPEN"

(***************************************************************************)
(* C10.  A task that failed at chunk i has sent no chunk with a higher     *)
(* index and no file_complete; the step in which it fails leaves           *)
(* isChatEnabled true, isUploadingFile and isSendingFile false, and        *)
(* appends exactly one entry, 'Error sending file: ...', to the history.   *)
(***************************************************************************)
C10_FailureAbortsUpload ==
    /\ [](\A r \in RunIds :
            runs[r].pc = "failed" =>
                \A k \in DOMAIN RunFrames(r) :
                    /\ RunFrames(r)[k].type = "file_chunk"
                    /\ RunFrames(r)[k].chunkIndex = k - 1
                    /\ RunFrames(r)[k].chunkIndex <= runs[r].i)
    /\ [][\A r \in RunIds :
            FailStep(r) =>
                /\ isChatEnabled'
                /\ ~isUploadingFile'
                /\ ~isSendingFile'
                /\ Len(messages') = Len(messages) + 1
                /\ SubSeq(messages', 1, Len(messages)) = messages
                /\ messages'[Len(messages')].type = "error"
                /\ messages'[Len(messages')].content[1] = "Error sending file: "
                /\ RunFrames(r)' = RunFrames(r)]_vars

\* a task sent chunk 0 of three and failed at chunk 1
C10_Witness ==
    \E r \in RunIds :
        /\ runs[r].pc = "failed"
        /\ runs[r].totalChunks = 3
        /\ runs[r].i = 1
        /\ Len(RunFrames(r)) = 1

(***************************************************************************)
(* The upload's flags and the inbound router.                              *)
(***************************************************************************)
\* task r is inside sendFileChunks: started, neither completed nor failed
UploadInProgress(r) == runs[r].pc \in {"reading", "delay"}

\* the last frame delivered to onmessage
LastReceived == received[Len(received)]

\* C11: while an upload is in progress isUploadingFile is true and
\* isChatEnabled is false, whatever frames arrive between the chunks.
C11_UploadFlagsHeldDuringUpload ==
    \A r \in RunIds :
        UploadInProgress(r) => isUploadingFile /\ ~isChatEnabled

\* the frames of one type that parse to an object
FramesOfType(type) == { m \in Frames : m.json = "object" /\ m.type = type }

\* C12: dispatching an error frame, from any state, leaves isProcessingQuestion,
\* isUploadingFile and isProcessingFile false and appends exactly one entry,
\* whose content is 'Error: ' followed by the frame's content.
C12_ErrorClearsFlagsAndReports ==
    \A m \in FramesOfType("error") :
        LET n == onmessage(St, m)
        IN /\ ~n.isProcessingQuestion
           /\ ~n.isUploadingFile
           /\ ~n.isProcessingFile
           /\ Len(n.messages) = Len(messages) + 1
           /\ SubSeq(n.messages, 1, Len(messages)) = messages
           /\ n.messages[Len(n.messages)].content = <<"Error: ">> \o m.content

\* an error frame arrived during an upload and cleared isUploadingFile
C12_Witness ==
    /\ received # <<>>
    /\ LastReceived.type = "error"
    /\ \E r \in RunIds : UploadInProgress(r)
    /\ ~isUploadingFile
    /\ messages # <<>>
    /\ messages[Len(messages)].content = <<"Error: ">> \o LastReceived.content

ProcessingMarker == <<"Processing your question...">>

\* C13: a chat frame whose content is exactly 'Processing your question...'
\* sets isProcessingQuestion and leaves the history alone; any other chat
\* frame clears isProcessingQuestion and appends exactly one server entry with
\* the frame's content; neither changes isUploadingFile or isProcessingFile.
C13_ChatMarkerOrEntry ==
    \A m \in FramesOfType("chat") :
        LET n == onmessage(St, m)
        IN /\ n.isUploadingFile = isUploadingFile
           /\ n.isProcessingFile = isProcessingFile
           /\ IF m.content = ProcessingMarker
              THEN n.isProcessingQuestion /\ n.messages = messages
              ELSE /\ ~n.isProcessingQuestion
                   /\ n.messages = Append(messages, Entry("server", m.content))

\* the marker arrived, then an answer: the flag is clear again and the history
\* holds the answer only
C13_Witness ==
    /\ Len(received) = 2
    /\ received[1].type = "chat" /\ received[1].content = ProcessingMarker
    /\ received[2].type = "chat" /\ received[2].content # ProcessingMarker
    /\ ~isProcessingQuestion
    /\ messages = <<Entry("server", received[2].content)>>

\* the system frames of the wire contract: the payload is plain text
SystemText == { m \in FramesOfType("system") : m.content # NotAString }

\* content the router keeps out of the history without touching a flag
IsSuppressed(content) ==
    \/ content = <<"Connected to chat server">>
    \/ startsWith(content, "Welcome! Your client ID is:")
    \/ content = <<"Processing File">>
IsProcessed(content) == startsWith(content, "Log file processed successfully:")
IsSaved(content) == startsWith(content, "File saved successfully:")

\* C14: a system frame starting with 'File saved successfully:' clears
\* isUploadingFile and sets isProcessingFile, one starting with 'Log file
\* processed successfully:' clears isProcessingFile, isUploadingFile and
\* isProcessingQuestion, both without appending to the history; a system frame
\* that matches neither these nor the suppressed patterns appends exactly one
\* system entry with its content and changes no flag.
C14_SystemStatusOrEntry ==
    \A m \in SystemText :
        LET n == onmessage(St, m)
        IN IF IsSuppressed(m.content) THEN TRUE
           ELSE IF IsSaved(m.content) THEN
               /\ ~n.isUploadingFile
               /\ n.isProcessingFile
               /\ n.messages = messages
           ELSE IF IsProcessed(m.content) THEN
               /\ ~n.isProcessingFile
               /\ ~n.isUploadingFile
               /\ ~n.isProcessingQuestion
               /\ n.messages = messages
           ELSE
               /\ n.messages = Append(messages, Entry("system", m.content))
               /\ n.isProcessingQuestion = isProcessingQuestion
               /\ n.isUploadingFile = isUploadingFile
               /\ n.isProcessingFile = isProcessingFile
               /\ n.isChatEnabled = isChatEnabled

\* 'File saved successfully:' arrived during an upload: the upload indicator
\* went off and the processing indicator on, and nothing was appended
C14_Witness ==
    /\ received # <<>>
    /\ LastReceived.type = "system"
    /\ IsSaved(LastReceived.content)
    /\ \E r \in RunIds : UploadInProgress(r)
    /\ ~isUploadingFile
    /\ isProcessingFile
    /\ messages = <<>>

\* the fields of the chat state
ChatState(st) ==
    <<st.messages, st.isProcessingQuestion, st.isUploadingFile,
      st.isProcessingFile, st.isChatEnabled>>

\* C15: a system frame whose content is exactly 'Connected to chat server',
\* starts with 'Welcome! Your client ID is:' or is exactly 'Processing File'
\* leaves the history and isProcessingQuestion, isUploadingFile,
\* isProcessingFile and isChatEnabled as they were.
C15_SuppressedSystemChangesNothing ==
    \A m \in SystemText :
        IsSuppressed(m.content) => ChatState(onmessage(St, m)) = ChatState(St)

\* a suppressed frame arrived while the question indicator was on
C15_Witness ==
    /\ Len(received) = 2
    /\ received[1].type = "chat" /\ received[1].content = ProcessingMarker
    /\ received[2].type = "system" /\ IsSuppressed(received[2].content)
    /\ isProcessingQuestion
    /\ messages = <<>>

\* the frames the switch has no case for, and the acknowledgments
IgnoredFrames ==
    { m \in Frames : m.json = "object" /\ m.type \notin {"chat", "system", "error"} }

\* C16: an acknowledgment frame, or a frame of a type other than chat, system,
\* acknowledgment and error, leaves the history and isProcessingQuestion,
\* isUploadingFile, isProcessingFile and isChatEnabled as they were, and the
\* router does not throw.
C16_IgnoredTypesChangeNothing ==
    \A m \in IgnoredFrames :
        /\ ~routerThrows(m)
        /\ ChatState(onMessageReceived(St, m)) = ChatState(St)
        /\ ChatState(onmessage(St, m)) = ChatState(St)

\* a frame of an unknown type arrived while the question indicator was on
C16_Witness ==
    /\ Len(received) = 2
    /\ received[1].type = "chat" /\ received[1].content = ProcessingMarker
    /\ received[2] \in IgnoredFrames
    /\ received[2].type # "acknowledgment"
    /\ isProcessingQuestion
    /\ messages = <<>>

(***************************************************************************)
(* The reconnect timer under fairness: a pending setTimeout callback runs. *)
(***************************************************************************)
\* the session alone, with the sockets of one whole retry cycle
NextRetry ==
    \/ MessagesDoneLoading(MaxRetrySockets, {"client_a"})
    \/ \E s \in SocketIds : SocketOpen(s)
    \/ \E s \in SocketIds : SocketFail(s)
    \/ \E s \in SocketIds : SocketClose(s)
    \/ TimerFire(MaxRetrySockets)
    \/ BeforeDestroy

\* the browser runs a setTimeout callback that is due
SpecRetry == Init /\ [][NextRetry]_vars

SpecRetryFair ==
    Init /\ [][NextRetry]_vars /\ WF_vars(TimerFire(MaxRetrySockets))

\* the session has created all the sockets the model gives it and none is
\* open: connectWebSocket cannot be run
SocketsExhausted == ~IsOpen(St) /\ nSockets >= MaxRetrySockets

\* a pending reconnect timer does not stay pending
PendingTimerRuns == (timers > 0) ~> (timers = 0 \/ SocketsExhausted)

\* C17: a close met with reconnectAttempts < 5 increments reconnectAttempts
\* by exactly one and schedules exactly one timer; no close schedules more
\* than one; timers are scheduled by closes only and each firing is one call
\* of connectWebSocket, which creates at most one socket; and, the timer being
\* fair, every scheduled call is eventually made.
C17_CloseSchedulesOneReconnect ==
    /\ [][CloseStep /\ reconnectAttempts < maxReconnectAttempts =>
            /\ reconnectAttempts' = reconnectAttempts + 1
            /\ timers' = timers + 1]_vars
    /\ [][CloseStep => timers' \in {timers, timers + 1}]_vars
    /\ [][timers' > timers => CloseStep]_vars
    /\ [][timers' < timers =>
            /\ TimerStep
            /\ nSockets' \in {nSockets, nSockets + 1}
            /\ reconnectAttempts' = reconnectAttempts]_vars
    /\ PendingTimerRuns

\* a close was answered by a reconnect: the timer has fired and the second
\* socket exists
C17_Witness ==
    /\ closes = 1
    /\ reconnectAttempts = 1
    /\ timers = 0
    /\ nSockets = 2
    /\ nRuns = 1

(***************************************************************************)
(* DataSync.                                                               *)
(***************************************************************************)
\* the data frames among the frames handed to a socket
DataFrames(frames) == SelectSeq(frames, LAMBDA f : f.type = "data")

\* a messagesDoneLoading event: the only caller of updateParsedData
TriggerStep == nRuns' = nRuns + 1

\* C18: a trigger met with the connection open sends exactly one data frame,
\* on the open socket and before anything else of that event; a trigger met
\* with the connection not open sends none, although the same event goes on to
\* connect; and no other step sends a data frame, so a snapshot that was not
\* sent is not sent later.
C18_DataSentOnlyAtOpenTrigger ==
    /\ [][TriggerStep /\ IsOpen(St) =>
            /\ Len(sent') > Len(sent)
            /\ sent'[Len(sent) + 1].type = "data"
            /\ sent'[Len(sent) + 1].readyState = "OPEN"
            /\ Len(DataFrames(sent')) = Len(DataFrames(sent)) + 1]_vars
    /\ [][TriggerStep /\ ~IsOpen(St) =>
            DataFrames(sent') = DataFrames(sent)]_vars
    /\ [][~TriggerStep => DataFrames(sent') = DataFrames(sent)]_vars

\* the first trigger found no connection and started one; the connection
\* opened and sent nothing; the second trigger sent the one data frame
C18_Witness ==
    /\ nRuns = 2
    /\ IsOpen(St)
    /\ nSockets = 1
    /\ Len(DataFrames(sent)) = 1

(***************************************************************************)
(* Who writes the flags of the chat state.                                 *)
(***************************************************************************)
\* a frame is delivered to onmessage
RouterStep == Len(received') = Len(received) + 1
\* sendMessage is called
ChatSendStep == nChat' = nChat + 1
\* a step of an onFileLoaded task: its start, its connection's outcome, a
\* chunk read, a delay's end
UploadTaskStep == runs' # runs
\* sendMessage gets past its first test
CanSend == Trim(newMessage) # <<>> /\ isConnected /\ ws # NoSocket

ChatFrames(frames) == SelectSeq(frames, LAMBDA f : f.type = "chat")
\* the user's entries of a history
UserEntries(history) == SelectSeq(history, LAMBDA e : e.type = "user")

\* C20: while isChatEnabled is false a call of sendMessage sends no chat frame
\* and appends no user entry.
C20_DisabledChatSendsNothing ==
    [][ChatSendStep /\ ~isChatEnabled =>
          /\ ChatFrames(sent') = ChatFrames(sent)
          /\ UserEntries(messages') = UserEntries(messages)]_vars

(***************************************************************************)
(* The upload's failure and the connection.                                *)
(***************************************************************************)
\* the connection: the handle, the flag, the retry counter, the client id,
\* the sockets themselves and the pending reconnect timers
ConnectionState(st) ==
    <<st.ws, st.isConnected, st.reconnectAttempts, st.clientId,
      st.sockets, st.nSockets, st.timers>>

\* C21: the catch block of sendFileChunks leaves ws, isConnected,
\* reconnectAttempts and clientId as they were, closes no socket, creates none
\* and schedules no reconnect: a step in which an upload fails changes nothing
\* of the connection, except that when the failure comes in the very task of
\* the open event that started the upload, that event's own handler has set
\* isConnected, reset reconnectAttempts and marked its socket open.
C21_UploadFailureKeepsConnection ==
    /\ [](\A r \in RunIds, msg \in {"TypeError", "InvalidStateError", "undefined"} :
            ConnectionState(uploadCatch(St, r, msg)) = ConnectionState(St))
    /\ [][(\E r \in RunIds : FailStep(r)) /\ ~OpenStep =>
            ConnectionState(St)' = ConnectionState(St)]_vars
    /\ [][(\E r \in RunIds : FailStep(r)) /\ OpenStep =>
            /\ ws' = ws
            /\ clientId' = clientId
            /\ nSockets' = nSockets
            /\ timers' = timers
            /\ isConnected'
            /\ reconnectAttempts' = 0
            /\ \A s \in SocketIds :
                  sockets'[s].readyState # sockets[s].readyState =>
                      sockets'[s].readyState = "OPEN"]_vars

\* an upload failed on a connection that is still open
C21_Witness ==
    /\ \E r \in RunIds : runs[r].pc = "failed"
    /\ IsOpen(St)
    /\ isConnected
    /\ timers = 0
    /\ closes = 0

(***************************************************************************)
(* Malformed frames.                                                       *)
(***************************************************************************)
\* text that is not JSON, a JSON value that is not an object, and a system
\* message whose content is not a string
MalformedFrames ==
    { m \in Frames : \/ m.json # "object"
                     \/ m.type = "system" /\ m.content = NotAString }

\* C22: a malformed frame arriving on the socket is dropped: the history, the
\* flags, the sockets with their handlers and everything else stay as they
\* were and no exception leaves onmessage; so a later frame is dispatched as
\* if the malformed one had not arrived.
C22_MalformedFrameDropped ==
    /\ [](\A m \in MalformedFrames : onmessage(St, m) = St)
    /\ [](uncaught = 0)
    /\ [][\A m \in MalformedFrames :
            received' = Append(received, m) =>
                /\ ChatState(St)' = ChatState(St)
                /\ ConnectionState(St)' = ConnectionState(St)
                /\ uncaught' = uncaught]_vars

\* a malformed frame arrived, then an answer, which is in the history
C22_Witness ==
    /\ Len(received) = 2
    /\ received[1] \in MalformedFrames
    /\ received[1].json # "garbage"
    /\ received[2].type = "chat" /\ received[2].content # ProcessingMarker
    /\ messages = <<Entry("server", received[2].content)>>
    /\ uncaught = 0

(***************************************************************************)
(* The envelope of outbound messages.                                      *)
(***************************************************************************)
\* C23: every frame handed to a socket has a type and carries the timestamp
\* field (the content field is present in every frame the code builds).
C23_EveryFrameHasTimestamp ==
    \A k \in DOMAIN sent :
        /\ sent[k].type \in {"chat", "data", "file_chunk", "file_complete"}
        /\ sent[k].timestamp

(***************************************************************************)
(* The client id.                                                          *)
(***************************************************************************)
\* C24: once clientId is set it never changes, whatever connects, closes,
\* reconnects and disconnects follow, and every socket the session has
\* created was addressed with it.
C24_ClientIdStable ==
    /\ [][clientId # NoClientId => clientId' = clientId]_vars
    /\ [](\A s \in SocketIds :
            sockets[s].readyState # "NONE" =>
                /\ clientId # NoClientId
                /\ sockets[s].url = clientId)

\* three sockets, two of them made by reconnects and the last after
\* disconnectWebSocket, all with the one id
C24_Witness ==
    /\ destroyed
    /\ nSockets = 3
    /\ closes = 2
    /\ \A s \in 1..3 : sockets[s].url = clientId

(***************************************************************************)
(* The history.                                                            *)
(***************************************************************************)
IsPrefix(a, b) == Len(a) <= Len(b) /\ SubSeq(b, 1, Len(a)) = a

\* the entry the router appends for frame m, if it appends one
RouterEntries(m) ==
    IF m.json # "object" THEN <<>>
    ELSE IF m.type = "chat" /\ m.content # ProcessingMarker
    THEN <<Entry("server", m.content)>>
    ELSE IF m.type = "system" /\ m.content # NotAString
            /\ ~IsSuppressed(m.content) /\ ~IsProcessed(m.content)
            /\ ~IsSaved(m.content)
    THEN <<Entry("system", m.content)>>
    ELSE IF m.type = "error"
    THEN <<Entry("system", <<"Error: ">> \o m.content)>>
    ELSE <<>>

RECURSIVE EntriesOf(_)
\* the entries the router appends for a sequence of frames, in arrival order
EntriesOf(frames) ==
    IF frames = <<>> THEN <<>>
    ELSE EntriesOf(SubSeq(frames, 1, Len(frames) - 1))
             \o RouterEntries(frames[Len(frames)])

\* the entries of the history the router wrote
RouterWritten ==
    SelectSeq(messages, LAMBDA e :
        \/ e.type = "server"
        \/ e.type = "system" /\ \E m \in Frames : RouterEntries(m) = <<e>>)

\* a step leaves the history as it was or extends it at the end
HistoryOnlyGrows == [][IsPrefix(messages, messages')]_vars

\* C25: every step leaves the history as it was or extends it at the end, and
\* the entries the router wrote stand in the history in the order in which
\* their frames arrived.
C25_HistoryAppendOnly ==
    /\ HistoryOnlyGrows
    /\ [](RouterWritten = EntriesOf(received))

\* two frames arrived around a message of the user: three entries, in order
C25_Witness ==
    /\ Len(received) = 2
    /\ Len(messages) = 3
    /\ messages[1] = Entry("system", <<"Server restarting">>)
    /\ messages[2].type = "user"
    /\ messages[3] = Entry("server", <<"The flight lasted 12 minutes">>)

(***************************************************************************)
(* Live sockets.                                                           *)
(***************************************************************************)
\* the sockets that are connecting or open; their handlers stay attached
LiveSockets == { s \in SocketIds : sockets[s].readyState \in {"CONNECTING", "OPEN"} }

\* C26: at most one socket of the session is connecting or open at any time.
C26_AtMostOneLiveSocket == Cardinality(LiveSockets) <= 1

(***************************************************************************)
(* One load event and its upload, every pending task being run in the end. *)
(***************************************************************************)
NextSend ==
    \/ \E file \in Files : FileReady(file)
    \/ nRuns < MaxTransferRuns /\ MessagesDoneLoading(MaxSockets, {"client_a"})
    \/ \E s \in SocketIds : SocketOpen(s)
    \/ \E s \in SocketIds : SocketFail(s)
    \/ \E s \in SocketIds : SocketClose(s)
    \/ TimerFire(MaxSockets)
    \/ BeforeDestroy
    \/ \E r \in RunIds : ChunkLoaded(r)
    \/ \E r \in RunIds : ChunkReadError(r)
    \/ \E r \in RunIds : DelayDone(r)

SpecSend == Init /\ [][NextSend]_vars

\* the event loop runs the FileReader's callback, the delay's and the
\* reconnect timer's when they are due; what the network, the user and the
\* page do is not forced
SpecSendFair ==
    /\ SpecSend
    /\ WF_vars(\E r \in RunIds : ChunkLoaded(r) \/ ChunkReadError(r))
    /\ WF_vars(\E r \in RunIds : DelayDone(r))
    /\ WF_vars(TimerFire(MaxSockets))

\* sendFileChunks has ended, by file_complete or by failing, and no task is
\* inside it
UploadEnded ==
    /\ \E r \in RunIds : runs[r].pc \in {"done", "failed"}
    /\ \A r \in RunIds : ~UploadInProgress(r)

\* a reconnect timer is pending and the model has no socket left for it
ReconnectBlocked == timers > 0 /\ ~IsOpen(St) /\ nSockets >= MaxSockets

\* the run is cut short: by the model's bound or by the component's end
CutShort == ReconnectBlocked \/ destroyed

\* C27: once sendFileChunks has ended, by sending file_complete or by
\* failing, isChatEnabled is true again in the end (the runs that are cut
\* short are left out).
C27_ChatEnabledAfterUpload == UploadEnded ~> (isChatEnabled \/ CutShort)

(***************************************************************************)
(* The file of a load event whose first connection fails.                  *)
(***************************************************************************)
\* the task of the load event r gave up: its connection attempt was rejected
FirstConnectionFailed(r) == runs[r].pc = "rejected"

\* a socket made after the one task r waited for is open
ReconnectedAfter(r) ==
    /\ IsOpen(St)
    /\ isConnected
    /\ ws > runs[r].sock

\* file_complete has been handed to a socket, or the upload has reported an
\* error in the history
UploadOutcome ==
    \/ \E k \in DOMAIN sent : sent[k].type = "file_complete"
    \/ \E k \in DOMAIN messages : messages[k].type = "error"

\* C28: if the load event comes with the file set, its connection attempt
\* fails and a reconnect is then open, in the end file_complete is sent or an
\* upload error is in the history (the runs that are cut short are left
\* out).
C28_FileSentAfterReconnect ==
    [](currentFile # NoFile /\ nRuns = 0 =>
         [](FirstConnectionFailed(1) /\ ReconnectedAfter(1) /\ ~destroyed
                => <>(UploadOutcome \/ CutShort)))

(***************************************************************************)
(* The indicators when the connection is gone for good.                    *)
(***************************************************************************)
\* the attempt ceiling is reached and the terminal entry is in the history
SessionFailed ==
    /\ reconnectAttempts = maxReconnectAttempts
    /\ TerminalEntries > 0
    /\ ~IsOpen(St)

\* disconnectWebSocket has run (beforeDestroy is its only caller)
Disconnected == destroyed

\* C29: when the session has failed for good or has been disconnected,
\* isProcessingQuestion, isUploadingFile and isProcessingFile are all false.
C29_NoIndicatorAfterConnectionLost ==
    SessionFailed \/ Disconnected =>
        ~isProcessingQuestion /\ ~isUploadingFile /\ ~isProcessingFile

(***************************************************************************)
(* The user's entries and the chat frames.                                 *)
(***************************************************************************)
\* the contents of a sequence of entries or frames
Contents(seq) == [k \in DOMAIN seq |-> seq[k].content]

\* C30: a call of sendMessage with blank input, isConnected false or no
\* handle changes and sends nothing; any other call appends exactly one user
\* entry and sends exactly one chat frame with the same content, to a socket
\* that takes it; so the user's entries and the chat frames sent correspond
\* one to one.
C30_UserEntriesAreSentMessages ==
    /\ [](Contents(UserEntries(messages)) = Contents(ChatFrames(sent)))
    /\ [](\A k \in DOMAIN sent : sent[k].type = "chat" => sent[k].readyState = "OPEN")
    /\ [][ChatSendStep /\ ~CanSend => messages' = messages /\ sent' = sent]_vars
    /\ [][ChatSendStep /\ CanSend =>
            /\ messages' = Append(messages, Entry("user", newMessage))
            /\ Len(sent') = Len(sent) + 1
            /\ sent'[Len(sent')].type = "chat"
            /\ sent'[Len(sent')].content = newMessage]_vars
====
